---- MODULE Spec2Model ----
(***************************************************************************)
(* A model of the shrewd parser-combinator engine.                        *)
(*                                                                         *)
(* A parser object is a record                                             *)
(*   [cls, skip, kids, chars, str, n, value]                               *)
(* cls   : the class (or the name of the parse closure) whose parse()      *)
(*         method the object carries                                       *)
(* skip  : the object's _skip field, own or inherited                      *)
(* kids  : the sub-parsers the object holds                                *)
(* chars : the character(s) of char / oneOf / string, one unit per entry   *)
(* str   : the mapper of map, the separator of join, the label held by     *)
(*         expect's closure                                                *)
(* n     : the count of times                                              *)
(* value : the value of always                                             *)
(*                                                                         *)
(* A JavaScript value is a record [t, s, items]: a string ("str"), an      *)
(* array ("arr") or undefined ("undef").  A string is a TLA+ string, the   *)
(* input of a Source is a sequence of one-unit strings.                    *)
(***************************************************************************)
EXTENDS Integers, Sequences, FiniteSets, TLC

\* input, pos : the Source's fields
\* pc         : "ready" before parser.parse(source), "done" after it
\* parser     : the parser object run
\* how        : the expression that built it (the method and its operands)
\* start      : source.pos when parse was called
\* result     : the ParseResult returned
\* calls      : the parse() calls made during the run, in order
VARIABLES input, pos, pc, parser, how, start, result, calls

vars == <<input, pos, pc, parser, how, start, result, calls>>

\* ---------------------------------------------------------------- bounds
MaxLen == 4

MaxTimes == 2

\* ---------------------------------------------------------------- values
Undef == [t |-> "undef", s |-> "", items |-> <<>>]

Str(s) == [t |-> "str", s |-> s, items |-> <<>>]

Arr(items) == [t |-> "arr", s |-> "", items |-> items]

\* ---------------------------------------------------------------- Source
\* Source.next() without the "this.pos--" of a read that read nothing.
Source_next_NoStepBack(in, p) ==
    LET ch == IF p + 1 \in 1..Len(in) THEN in[p + 1] ELSE ""
    IN  [ch |-> ch, pos |-> p + 1]

\* Source.next(): charAt(pos++), and pos-- again when that read nothing.
Source_next(in, p) ==
    LET ch == IF p + 1 \in 1..Len(in) THEN in[p + 1] ELSE ""
    IN  IF ch = "" THEN [ch |-> ch, pos |-> (p + 1) - 1]
                   ELSE [ch |-> ch, pos |-> p + 1]

\* ---------------------------------------------------------------- results
\* reason is <<>> for an absent reason and <<text>> for a given one; a
\* failure holds the Source object itself, not a copy of its position.
ParseResultOk(value) ==
    [success |-> TRUE, value |-> value, source |-> "none", reason |-> <<>>]

ParseResultFail(source, reason) ==
    [success |-> FALSE, value |-> Undef, source |-> source, reason |-> reason]

\* What one parse() call hands back to its caller: its return value, the
\* position it leaves in the Source, and the parse() calls made (each the
\* path of the callee in the parser tree, the position it started at, the
\* position it returned at, whether it returned a success and the value
\* of the result it returned).
Outcome(res, p, tr) == [res |-> res, pos |-> p, trace |-> tr]

\* ---------------------------------------------------------------- parser objects
Node(cls, skip, kids, chars, str, n, value) ==
    [cls |-> cls, skip |-> skip, kids |-> kids, chars |-> chars,
     str |-> str, n |-> n, value |-> value]

is_skip(p) == p.skip = TRUE

CustomParser(name, chars, value) == Node(name, FALSE, <<>>, chars, "", 0, value)

always(value) == CustomParser("always", <<>>, value)

any == CustomParser("any", <<>>, Undef)

char(c) == CustomParser("char", <<c>>, Undef)

oneOf(chars) == CustomParser("oneOf", chars, Undef)

eof == CustomParser("eof", <<>>, Undef)

string(str) == CustomParser("string", str, Undef)

Skip(p) == Node("Skip", TRUE, <<p>>, <<>>, "", 0, Undef)

SkipSeq(ps) == Node("SkipSeq", TRUE, ps, <<>>, "", 0, Undef)

SeqP(ps) == Node("Seq", FALSE, ps, <<>>, "", 0, Undef)

ThenP(first, second) == Node("Then", FALSE, <<first, second>>, <<>>, "", 0, Undef)

NextP(first, second) == Node("Next", FALSE, <<first, second>>, <<>>, "", 0, Undef)

FollowedBy(first, nxt) == Node("FollowedBy", FALSE, <<first, nxt>>, <<>>, "", 0, Undef)

Many(p) == Node("Many", FALSE, <<p>>, <<>>, "", 0, Undef)

SkipMany(p) == Node("SkipMany", TRUE, <<p>>, <<>>, "", 0, Undef)

Many1(p) == Node("Many1", FALSE, <<p>>, <<>>, "", 0, Undef)

Map(from, mapper) == Node("Map", FALSE, <<from>>, <<>>, mapper, 0, Undef)

MapSkip(from, mapper) == Node("MapSkip", FALSE, <<from>>, <<>>, mapper, 0, Undef)

Join(p, separator) == Node("Join", FALSE, <<p>>, <<>>, separator, 0, Undef)

Peek(p) == Node("Peek", FALSE, <<p>>, <<>>, "", 0, Undef)

PeekSkip(p) == Node("PeekSkip", TRUE, <<p>>, <<>>, "", 0, Undef)

\* Not's constructor hands parser.peek() to Skip's constructor.
peek(self) == IF is_skip(self) THEN PeekSkip(self) ELSE Peek(self)

\* Not over the parser itself, not over its peek.
Not_NoPeek(p) == Node("Not", TRUE, <<p>>, <<>>, "", 0, Undef)

Not(p) == Node("Not", TRUE, <<peek(p)>>, <<>>, "", 0, Undef)

Times(p, n) == Node("Times", FALSE, <<p>>, <<>>, "", n, Undef)

TimesSkip(p, n) == Node("TimesSkip", TRUE, <<p>>, <<>>, "", n, Undef)

\* The classes of the engine that has untilFollowedBy (it has no Skip).
Until(repeat, untl) == Node("Until", FALSE, <<repeat, untl>>, <<>>, "", 0, Undef)

UntilFollowedBy(repeat, untl) ==
    Node("UntilFollowedBy", FALSE, <<repeat, untl>>, <<>>, "", 0, Undef)

untilFollowedBy(self, untl) == UntilFollowedBy(self, untl)

\* ---------------------------------------------------------------- Parser's methods
\* or, expect and optional build Object.create(this, {parse: ...}): the new
\* object has its own parse and inherits every other field, _skip among
\* them, from this.
or(self, other) == [self EXCEPT !.cls = "parse_or", !.kids = <<self, other>>]

\* expect's closure holds the label what; it is kept here in str, which
\* is no field of the object: this.what in parse_expect does not read it.
expect(self, what) ==
    [self EXCEPT !.cls = "parse_expect", !.kids = <<self>>, !.str = what]

optional(self) == [self EXCEPT !.cls = "parse_optional", !.kids = <<self>>]

\* then without the is_skip dispatch.
then_AlwaysPair(self, nxt) == ThenP(self, nxt)

\* then building, of two discardable parsers, the first one alone.
then_DropsSecondSkip(self, nxt) ==
    IF is_skip(nxt)
    THEN IF is_skip(self) THEN self ELSE FollowedBy(self, nxt)
    ELSE IF is_skip(self) THEN NextP(self, nxt) ELSE ThenP(self, nxt)

then(self, nxt) ==
    IF is_skip(nxt)
    THEN IF is_skip(self) THEN SkipSeq(<<self, nxt>>) ELSE FollowedBy(self, nxt)
    ELSE IF is_skip(self) THEN NextP(self, nxt) ELSE ThenP(self, nxt)

many(self) == IF is_skip(self) THEN SkipMany(self) ELSE Many(self)

many1(self) == IF is_skip(self) THEN then(self, many(self)) ELSE Many1(self)

map(self, mapper) == IF is_skip(self) THEN MapSkip(self, mapper) ELSE Map(self, mapper)

followedBy(self, nxt) ==
    IF is_skip(self) THEN SkipSeq(<<self, nxt>>) ELSE FollowedBy(self, nxt)

next(self, nxt) ==
    IF is_skip(nxt) THEN SkipSeq(<<self, nxt>>) ELSE NextP(self, nxt)

not(self) == Not(self)

skip(self) == Skip(self)

until(self, untl) == then(many(next(not(untl), self)), untl)

\* times without the is_skip dispatch.
times_AlwaysTimes(self, n) == Times(self, n)

times(self, n) == IF is_skip(self) THEN TimesSkip(self, n) ELSE Times(self, n)

seq(ps) == IF is_skip(ps[1]) THEN SkipSeq(ps) ELSE SeqP(ps)

join(self, separator) == Join(self, separator)

\* sepBy1 with separator.then(self) for separator.next(self).
sepBy1_KeepsSeparators(self, separator) ==
    IF is_skip(self)
    THEN seq(<<self, many(then(separator, self))>>)
    ELSE map(then(self, many(then(separator, self))), "unshift")

sepBy1(self, separator) ==
    IF is_skip(self)
    THEN seq(<<self, many(next(separator, self))>>)
    ELSE map(then(self, many(next(separator, self))), "unshift")

sepBy(self, separator) ==
    IF is_skip(self)
    THEN or(sepBy1(self, separator), skip(always(Undef)))
    ELSE or(sepBy1(self, separator), always(Arr(<<>>)))

\* new_line.ts
CR == char("\r")

LF == char("\n")

\* new_line with the one-unit "\r" tried before the two-unit "\r\n".
new_line_SingleFirst == or(or(CR, join(then(CR, LF), "")), LF)

new_line == or(or(join(then(CR, LF), ""), CR), LF)

\* ---------------------------------------------------------------- parse
RECURSIVE parse(_, _, _, _)

RECURSIVE string_loop(_, _, _, _, _)

RECURSIVE Seq_rest(_, _, _, _, _, _, _)

RECURSIVE SkipSeq_rest(_, _, _, _, _, _)

RECURSIVE Many_loop(_, _, _, _, _, _)

RECURSIVE SkipMany_loop(_, _, _, _, _)

RECURSIVE Times_loop(_, _, _, _, _, _, _)

RECURSIVE TimesSkip_loop(_, _, _, _, _, _)

RECURSIVE Until_loop(_, _, _, _, _, _)

RECURSIVE UntilFollowedBy_loop(_, _, _, _, _, _)

RECURSIVE JoinStr(_, _)

\* Array.prototype.join over an array of strings.
JoinStr(items, separator) ==
    IF items = <<>> THEN ""
    ELSE IF Len(items) = 1 THEN items[1].s
    ELSE items[1].s \o separator \o JoinStr(Tail(items), separator)

\* The string a sequence of units stands for.
StrOf(chars) == JoinStr([i \in 1..Len(chars) |-> Str(chars[i])], "")

\* The mapper functions handed to map().
Apply(mapper, v) ==
    CASE mapper = "unshift" -> Arr(<<v.items[1]>> \o v.items[2].items)
      [] mapper = "bang"    -> Str(v.s \o "!")
      [] mapper = "const"   -> Str("!")
      [] OTHER              -> v

always_parse(self, in, at, path) == Outcome(ParseResultOk(self.value), at, <<>>)

any_parse(self, in, at, path) ==
    LET nx == Source_next(in, at)
    IN  IF nx.ch # ""
        THEN Outcome(ParseResultOk(Str(nx.ch)), nx.pos, <<>>)
        ELSE Outcome(ParseResultFail("source", <<"expected any character, got EOF">>),
                     nx.pos, <<>>)

char_parse(self, in, at, path) ==
    LET nx == Source_next(in, at)
    IN  IF nx.ch = self.chars[1]
        THEN Outcome(ParseResultOk(Str(nx.ch)), nx.pos, <<>>)
        ELSE Outcome(ParseResultFail("source",
                        <<"expecting \"" \o self.chars[1] \o "\", got \"" \o nx.ch \o "\"">>),
                     nx.pos, <<>>)

oneOf_parse(self, in, at, path) ==
    LET nx == Source_next(in, at)
    IN  IF \E i \in 1..Len(self.chars) : self.chars[i] = nx.ch
        THEN Outcome(ParseResultOk(Str(nx.ch)), nx.pos, <<>>)
        ELSE Outcome(ParseResultFail("source",
                        <<"one of \"" \o StrOf(self.chars) \o "\"">>),
                     nx.pos, <<>>)

\* eof's closure putting the position back when it read a unit.
eof_parse_Restores(self, in, at, path) ==
    LET nx == Source_next(in, at)
    IN  IF nx.ch = ""
        THEN Outcome(ParseResultOk(Undef), nx.pos, <<>>)
        ELSE Outcome(ParseResultFail("source",
                        <<"expected \"EOF\", got \"" \o nx.ch \o "\"">>),
                     at, <<>>)

eof_parse(self, in, at, path) ==
    LET nx == Source_next(in, at)
    IN  IF nx.ch = ""
        THEN Outcome(ParseResultOk(Undef), nx.pos, <<>>)
        ELSE Outcome(ParseResultFail("source",
                        <<"expected \"EOF\", got \"" \o nx.ch \o "\"">>),
                     nx.pos, <<>>)

string_loop(str, i, in, p, matched) ==
    IF i > Len(str)
    THEN Outcome(ParseResultOk(Str(StrOf(str))), p, <<>>)
    ELSE LET nx == Source_next(in, p)
             m  == matched \o nx.ch
         IN  IF str[i] # nx.ch
             THEN Outcome(ParseResultFail("source",
                             <<"expecting \"" \o StrOf(str) \o "\", got \"" \o m \o "\"">>),
                          nx.pos, <<>>)
             ELSE string_loop(str, i + 1, in, nx.pos, m)

\* string's closure putting the position back when a unit does not match.
string_parse_Restores(self, in, at, path) ==
    LET o == string_loop(self.chars, 1, in, at, "")
    IN  IF o.res.success THEN o ELSE Outcome(o.res, at, o.trace)

string_parse(self, in, at, path) == string_loop(self.chars, 1, in, at, "")

\* Skip.parse handing on the success of its parser, value included.
Skip_parse_KeepsValue(self, in, at, path) ==
    parse(self.kids[1], in, at, path \o <<1>>)

Skip_parse(self, in, at, path) ==
    LET r == parse(self.kids[1], in, at, path \o <<1>>)
    IN  IF r.res.success
        THEN Outcome(ParseResultOk(Undef), r.pos, r.trace)
        ELSE r

\* Seq.parse's loop putting the position back when a later parser fails.
Seq_rest_Rewinds(self, in, i, p, results, tr, path) ==
    IF i > Len(self.kids)
    THEN Outcome(ParseResultOk(Arr(results)), p, tr)
    ELSE LET r2 == parse(self.kids[i], in, p, path \o <<i>>)
         IN  IF r2.res.success
             THEN Seq_rest(self, in, i + 1, r2.pos, Append(results, r2.res.value),
                           tr \o r2.trace, path)
             ELSE Outcome(r2.res, p, tr \o r2.trace)

Seq_rest(self, in, i, p, results, tr, path) ==
    IF i > Len(self.kids)
    THEN Outcome(ParseResultOk(Arr(results)), p, tr)
    ELSE LET r2 == parse(self.kids[i], in, p, path \o <<i>>)
         IN  IF r2.res.success
             THEN Seq_rest(self, in, i + 1, r2.pos, Append(results, r2.res.value),
                           tr \o r2.trace, path)
             ELSE Outcome(r2.res, r2.pos, tr \o r2.trace)

Seq_parse(self, in, at, path) ==
    LET r1 == parse(self.kids[1], in, at, path \o <<1>>)
    IN  IF ~r1.res.success
        THEN Outcome(ParseResultFail("source", <<>>), r1.pos, r1.trace)
        ELSE Seq_rest(self, in, 2, r1.pos, <<r1.res.value>>, r1.trace, path)

SkipSeq_rest(self, in, i, p, tr, path) ==
    IF i > Len(self.kids)
    THEN Outcome(ParseResultOk(Undef), p, tr)
    ELSE LET r2 == parse(self.kids[i], in, p, path \o <<i>>)
         IN  IF ~r2.res.success
             THEN Outcome(r2.res, r2.pos, tr \o r2.trace)
             ELSE SkipSeq_rest(self, in, i + 1, r2.pos, tr \o r2.trace, path)

SkipSeq_parse(self, in, at, path) ==
    LET r1 == parse(self.kids[1], in, at, path \o <<1>>)
    IN  IF ~r1.res.success
        THEN Outcome(ParseResultFail("source", <<>>), r1.pos, r1.trace)
        ELSE SkipSeq_rest(self, in, 2, r1.pos, r1.trace, path)

\* parse_or without "source.pos = pos".
parse_or_NoRestore(self, in, at, path) ==
    LET self_result == parse(self.kids[1], in, at, path \o <<1>>)
    IN  IF self_result.res.success
        THEN self_result
        ELSE LET other == parse(self.kids[2], in, self_result.pos, path \o <<2>>)
             IN  Outcome(other.res, other.pos, self_result.trace \o other.trace)

\* parse_or putting back a position saved by an earlier call, the start of
\* the input, for the one it was entered at.
parse_or_StalePosition(self, in, at, path) ==
    LET self_result == parse(self.kids[1], in, at, path \o <<1>>)
    IN  IF self_result.res.success
        THEN self_result
        ELSE LET other == parse(self.kids[2], in, 0, path \o <<2>>)
             IN  Outcome(other.res, other.pos, self_result.trace \o other.trace)

parse_or(self, in, at, path) ==
    LET self_result == parse(self.kids[1], in, at, path \o <<1>>)
    IN  IF self_result.res.success
        THEN self_result
        ELSE LET other == parse(self.kids[2], in, at, path \o <<2>>)
             IN  Outcome(other.res, other.pos, self_result.trace \o other.trace)

\* `expecting ${this.what}`: this is the object made by Object.create, and
\* neither it nor any object on its prototype chain has a field "what".
parse_expect(self, in, at, path) ==
    LET r == parse(self.kids[1], in, at, path \o <<1>>)
    IN  IF r.res.success
        THEN r
        ELSE Outcome(ParseResultFail("source", <<"expecting undefined">>), r.pos, r.trace)

\* parse_optional without "source.pos = pos".
parse_optional_NoRestore(self, in, at, path) ==
    LET r == parse(self.kids[1], in, at, path \o <<1>>)
    IN  IF r.res.success
        THEN r
        ELSE Outcome(ParseResultOk(Undef), r.pos, r.trace)

parse_optional(self, in, at, path) ==
    LET r == parse(self.kids[1], in, at, path \o <<1>>)
    IN  IF r.res.success
        THEN r
        ELSE Outcome(ParseResultOk(Undef), at, r.trace)

\* Then.parse putting the position back when the first parser fails.
Then_parse_Rewinds(self, in, at, path) ==
    LET first_result == parse(self.kids[1], in, at, path \o <<1>>)
    IN  IF ~first_result.res.success
        THEN Outcome(first_result.res, at, first_result.trace)
        ELSE LET second_result == parse(self.kids[2], in, first_result.pos, path \o <<2>>)
                 tr == first_result.trace \o second_result.trace
             IN  IF ~second_result.res.success
                 THEN Outcome(second_result.res, second_result.pos, tr)
                 ELSE Outcome(ParseResultOk(Arr(<<first_result.res.value,
                                                   second_result.res.value>>)),
                              second_result.pos, tr)

Then_parse(self, in, at, path) ==
    LET first_result == parse(self.kids[1], in, at, path \o <<1>>)
    IN  IF ~first_result.res.success
        THEN first_result
        ELSE LET second_result == parse(self.kids[2], in, first_result.pos, path \o <<2>>)
                 tr == first_result.trace \o second_result.trace
             IN  IF ~second_result.res.success
                 THEN Outcome(second_result.res, second_result.pos, tr)
                 ELSE Outcome(ParseResultOk(Arr(<<first_result.res.value,
                                                   second_result.res.value>>)),
                              second_result.pos, tr)

\* Next.parse running its second parser whatever the first returned.
Next_parse_IgnoresFirst(self, in, at, path) ==
    LET first_result == parse(self.kids[1], in, at, path \o <<1>>)
        second == parse(self.kids[2], in, first_result.pos, path \o <<2>>)
    IN  Outcome(second.res, second.pos, first_result.trace \o second.trace)

Next_parse(self, in, at, path) ==
    LET first_result == parse(self.kids[1], in, at, path \o <<1>>)
    IN  IF ~first_result.res.success
        THEN first_result
        ELSE LET second == parse(self.kids[2], in, first_result.pos, path \o <<2>>)
             IN  Outcome(second.res, second.pos, first_result.trace \o second.trace)

FollowedBy_parse(self, in, at, path) ==
    LET first_res == parse(self.kids[1], in, at, path \o <<1>>)
    IN  IF ~first_res.res.success
        THEN first_res
        ELSE LET second_res == parse(self.kids[2], in, first_res.pos, path \o <<2>>)
                 tr == first_res.trace \o second_res.trace
             IN  IF ~second_res.res.success
                 THEN Outcome(second_res.res, second_res.pos, tr)
                 ELSE Outcome(first_res.res, second_res.pos, tr)

\* Many.parse's loop without "source.pos = pos".
Many_loop_NoRestore(self, in, p, ret, tr, path) ==
    LET res == parse(self.kids[1], in, p, path \o <<1>>)
    IN  IF ~res.res.success
        THEN Outcome(ParseResultOk(Arr(ret)), res.pos, tr \o res.trace)
        ELSE Many_loop(self, in, res.pos, Append(ret, res.res.value), tr \o res.trace, path)

Many_loop(self, in, p, ret, tr, path) ==
    LET res == parse(self.kids[1], in, p, path \o <<1>>)
    IN  IF ~res.res.success
        THEN Outcome(ParseResultOk(Arr(ret)), p, tr \o res.trace)
        ELSE Many_loop(self, in, res.pos, Append(ret, res.res.value), tr \o res.trace, path)

Many_parse(self, in, at, path) == Many_loop(self, in, at, <<>>, <<>>, path)

SkipMany_loop(self, in, p, tr, path) ==
    LET res == parse(self.kids[1], in, p, path \o <<1>>)
    IN  IF ~res.res.success
        THEN Outcome(ParseResultOk(Undef), p, tr \o res.trace)
        ELSE SkipMany_loop(self, in, res.pos, tr \o res.trace, path)

SkipMany_parse(self, in, at, path) == SkipMany_loop(self, in, at, <<>>, path)

Many1_parse(self, in, at, path) ==
    LET res == parse(self.kids[1], in, at, path \o <<1>>)
    IN  IF ~res.res.success
        THEN res
        ELSE Many_loop(self, in, res.pos, <<res.res.value>>, res.trace, path)

Map_parse(self, in, at, path) ==
    LET r == parse(self.kids[1], in, at, path \o <<1>>)
    IN  IF ~r.res.success
        THEN r
        ELSE Outcome(ParseResultOk(Apply(self.str, r.res.value)), r.pos, r.trace)

MapSkip_parse(self, in, at, path) ==
    LET r == parse(self.kids[1], in, at, path \o <<1>>)
    IN  IF ~r.res.success
        THEN r
        ELSE Outcome(ParseResultOk(Apply(self.str, Undef)), r.pos, r.trace)

Join_parse(self, in, at, path) ==
    LET r == parse(self.kids[1], in, at, path \o <<1>>)
    IN  IF r.res.success
        THEN Outcome(ParseResultOk(Str(JoinStr(r.res.value.items, self.str))), r.pos, r.trace)
        ELSE r

Not_parse(self, in, at, path) ==
    LET r == parse(self.kids[1], in, at, path \o <<1>>)
    IN  IF r.res.success
        THEN Outcome(ParseResultFail("source", <<>>), r.pos, r.trace)
        ELSE Outcome(ParseResultOk(Undef), r.pos, r.trace)

\* Peek.parse without "source.pos = pos".
Peek_parse_NoRestore(self, in, at, path) ==
    LET r == parse(self.kids[1], in, at, path \o <<1>>)
    IN  Outcome(r.res, r.pos, r.trace)

Peek_parse(self, in, at, path) ==
    LET r == parse(self.kids[1], in, at, path \o <<1>>)
    IN  Outcome(r.res, at, r.trace)

PeekSkip_parse(self, in, at, path) ==
    LET r == parse(self.kids[1], in, at, path \o <<1>>)
    IN  IF r.res.success
        THEN Outcome(ParseResultOk(Undef), at, r.trace)
        ELSE Outcome(r.res, at, r.trace)

\* Times.parse's loop returning what it has collected when a run fails.
Times_loop_Partial(self, in, i, p, results, tr, path) ==
    IF ~(i < self.n)
    THEN Outcome(ParseResultOk(Arr(results)), p, tr)
    ELSE LET r == parse(self.kids[1], in, p, path \o <<1>>)
         IN  IF r.res.success
             THEN Times_loop(self, in, i + 1, r.pos, Append(results, r.res.value),
                             tr \o r.trace, path)
             ELSE Outcome(ParseResultOk(Arr(results)), r.pos, tr \o r.trace)

Times_loop(self, in, i, p, results, tr, path) ==
    IF ~(i < self.n)
    THEN Outcome(ParseResultOk(Arr(results)), p, tr)
    ELSE LET r == parse(self.kids[1], in, p, path \o <<1>>)
         IN  IF r.res.success
             THEN Times_loop(self, in, i + 1, r.pos, Append(results, r.res.value),
                             tr \o r.trace, path)
             ELSE Outcome(r.res, r.pos, tr \o r.trace)

Times_parse(self, in, at, path) == Times_loop(self, in, 0, at, <<>>, <<>>, path)

TimesSkip_loop(self, in, i, p, tr, path) ==
    IF ~(i < self.n)
    THEN Outcome(ParseResultOk(Undef), p, tr)
    ELSE LET r == parse(self.kids[1], in, p, path \o <<1>>)
         IN  IF ~r.res.success
             THEN Outcome(r.res, r.pos, tr \o r.trace)
             ELSE TimesSkip_loop(self, in, i + 1, r.pos, tr \o r.trace, path)

TimesSkip_parse(self, in, at, path) == TimesSkip_loop(self, in, 0, at, <<>>, path)

Until_loop(self, in, p, results, tr, path) ==
    LET until_res == parse(self.kids[2], in, p, path \o <<2>>)
    IN  IF until_res.res.success
        THEN Outcome(ParseResultOk(Arr(results)), p, tr \o until_res.trace)
        ELSE LET res == parse(self.kids[1], in, p, path \o <<1>>)
                 t   == tr \o until_res.trace \o res.trace
             IN  IF res.res.success
                 THEN Until_loop(self, in, res.pos, Append(results, res.res.value), t, path)
                 ELSE Outcome(res.res, res.pos, t)

Until_parse(self, in, at, path) == Until_loop(self, in, at, <<>>, <<>>, path)

\* UntilFollowedBy.parse's loop putting the position back after the
\* terminator matched, as Until.parse does.
UntilFollowedBy_loop_Rewinds(self, in, p, results, tr, path) ==
    LET until_res == parse(self.kids[2], in, p, path \o <<2>>)
    IN  IF until_res.res.success
        THEN Outcome(ParseResultOk(Arr(results)), p, tr \o until_res.trace)
        ELSE LET res == parse(self.kids[1], in, p, path \o <<1>>)
                 t   == tr \o until_res.trace \o res.trace
             IN  IF res.res.success
                 THEN UntilFollowedBy_loop(self, in, res.pos,
                                           Append(results, res.res.value), t, path)
                 ELSE Outcome(res.res, res.pos, t)

UntilFollowedBy_loop(self, in, p, results, tr, path) ==
    LET until_res == parse(self.kids[2], in, p, path \o <<2>>)
    IN  IF until_res.res.success
        THEN Outcome(ParseResultOk(Arr(results)), until_res.pos, tr \o until_res.trace)
        ELSE LET res == parse(self.kids[1], in, p, path \o <<1>>)
                 t   == tr \o until_res.trace \o res.trace
             IN  IF res.res.success
                 THEN UntilFollowedBy_loop(self, in, res.pos,
                                           Append(results, res.res.value), t, path)
                 ELSE Outcome(res.res, res.pos, t)

UntilFollowedBy_parse(self, in, at, path) ==
    UntilFollowedBy_loop(self, in, at, <<>>, <<>>, path)

\* The dispatch of p.parse(source) on the object's parse method, with the
\* call itself put at the head of the calls made.
parse(p, in, at, path) ==
    LET o == CASE p.cls = "always"         -> always_parse(p, in, at, path)
               [] p.cls = "any"            -> any_parse(p, in, at, path)
               [] p.cls = "char"           -> char_parse(p, in, at, path)
               [] p.cls = "oneOf"          -> oneOf_parse(p, in, at, path)
               [] p.cls = "eof"            -> eof_parse(p, in, at, path)
               [] p.cls = "string"         -> string_parse(p, in, at, path)
               [] p.cls = "Skip"           -> Skip_parse(p, in, at, path)
               [] p.cls = "Seq"            -> Seq_parse(p, in, at, path)
               [] p.cls = "SkipSeq"        -> SkipSeq_parse(p, in, at, path)
               [] p.cls = "parse_or"       -> parse_or(p, in, at, path)
               [] p.cls = "parse_expect"   -> parse_expect(p, in, at, path)
               [] p.cls = "parse_optional" -> parse_optional(p, in, at, path)
               [] p.cls = "Then"           -> Then_parse(p, in, at, path)
               [] p.cls = "Next"           -> Next_parse(p, in, at, path)
               [] p.cls = "FollowedBy"     -> FollowedBy_parse(p, in, at, path)
               [] p.cls = "Many"           -> Many_parse(p, in, at, path)
               [] p.cls = "SkipMany"       -> SkipMany_parse(p, in, at, path)
               [] p.cls = "Many1"          -> Many1_parse(p, in, at, path)
               [] p.cls = "Map"            -> Map_parse(p, in, at, path)
               [] p.cls = "MapSkip"        -> MapSkip_parse(p, in, at, path)
               [] p.cls = "Join"           -> Join_parse(p, in, at, path)
               [] p.cls = "Not"            -> Not_parse(p, in, at, path)
               [] p.cls = "Peek"           -> Peek_parse(p, in, at, path)
               [] p.cls = "PeekSkip"       -> PeekSkip_parse(p, in, at, path)
               [] p.cls = "Times"          -> Times_parse(p, in, at, path)
               [] p.cls = "TimesSkip"      -> TimesSkip_parse(p, in, at, path)
               [] p.cls = "Until"          -> Until_parse(p, in, at, path)
               [] p.cls = "UntilFollowedBy" -> UntilFollowedBy_parse(p, in, at, path)
    IN  Outcome(o.res, o.pos,
                <<[path |-> path, at |-> at, to |-> o.pos, ok |-> o.res.success,
                  value |-> o.res.value]>> \o o.trace)

\* ---------------------------------------------------------------- the inputs
Alphabet == {"a", "b"}

Inputs == UNION {[1..n -> Alphabet] : n \in 0..MaxLen}

\* Value parsers, discardable parsers, and the ones whose every success
\* consumes at least one unit (a repetition of the others need not return).
Base == {char("a"), char("b"), any, string(<<"a", "b">>)}

Chars == {char("a"), char("b"), any}

Values == Base \cup {eof, then(char("a"), char("b"))}

Skips == {skip(char("a")), skip(string(<<"a", "b">>)), not(char("b"))}

Operands == Values \cup Skips

Repeatable == Base \cup {then(char("a"), char("b")), skip(char("a")),
                         skip(string(<<"a", "b">>))}

\* The discardable parsers every success of which consumes.
RepeatableSkips == {skip(char("a")), skip(string(<<"a", "b">>))}

Labels == {"letter a"}

SepElems == {char("a"), string(<<"a", "b">>), skip(char("a"))}

Separators == {char("b"), skip(char("b")), char("a")}

\* The ways a parser is derived from a discardable one.
Derivations == {"expect", "peek", "optional", "or", "times", "many", "many1",
                "sepBy", "sepBy1", "followedBy", "map"}

Derive(d, p) ==
    CASE d = "expect"     -> expect(p, "letter a")
      [] d = "peek"       -> peek(p)
      [] d = "optional"   -> optional(p)
      [] d = "or"         -> or(p, skip(char("b")))
      [] d = "times"      -> times(p, MaxTimes)
      [] d = "many"       -> many(p)
      [] d = "many1"      -> many1(p)
      [] d = "sepBy"      -> sepBy(p, char("b"))
      [] d = "sepBy1"     -> sepBy1(p, char("b"))
      [] d = "followedBy" -> followedBy(p, char("b"))
      [] d = "map"        -> map(p, "const")

DerivedOp(d) == "then_" \o d

\* The strings handed to string(), the empty one among them.
Strings == {<<>>, <<"a">>, <<"a", "b">>, <<"a", "b", "a">>}

\* The sets of units handed to oneOf().
CharSets == {<<"a">>, <<"b">>, <<"a", "b">>}

NoParser == Node("none", FALSE, <<>>, <<>>, "", 0, Undef)

NoResult == [success |-> FALSE, value |-> Undef, source |-> "none", reason |-> <<>>]

\* ---------------------------------------------------------------- the state machine
\* new Source(input, pos)
Init ==
    /\ input \in Inputs
    /\ pos \in 0..Len(input)
    /\ pc = "ready"
    /\ parser = NoParser
    /\ how = [op |-> "none", args |-> <<>>]
    /\ start = 0
    /\ result = NoResult
    /\ calls = <<>>

\* source.next(), called on the Source before a parser is run on it
Read ==
    /\ pc = "ready"
    /\ pos' = Source_next(input, pos).pos
    /\ pos' # pos
    /\ UNCHANGED <<input, pc, parser, how, start, result, calls>>

\* p.parse(source), p being the parser the caller built as op(args)
Run(p, op, args) ==
    /\ LET o == parse(p, input, pos, <<>>)
       IN  /\ result' = o.res
           /\ pos' = o.pos
           /\ calls' = o.trace
    /\ parser' = p
    /\ how' = [op |-> op, args |-> args]
    /\ start' = pos
    /\ pc' = "done"
    /\ UNCHANGED input

ParseOperand ==
    /\ pc = "ready"
    /\ \E p \in Operands : Run(p, "operand", <<p>>)

ParseString ==
    /\ pc = "ready"
    /\ \E str \in Strings : Run(string(str), "string", <<str>>)

ParseOneOf ==
    /\ pc = "ready"
    /\ \E chars \in CharSets : Run(oneOf(chars), "oneOf", <<chars>>)

ParseOr ==
    /\ pc = "ready"
    /\ \E p, q \in Operands : is_skip(p) = is_skip(q) /\ Run(or(p, q), "or", <<p, q>>)

ParseThen ==
    /\ pc = "ready"
    /\ \E p, q \in Operands : Run(then(p, q), "then", <<p, q>>)

ParseNext ==
    /\ pc = "ready"
    /\ \E p, q \in Operands : Run(next(p, q), "next", <<p, q>>)

ParseFollowedBy ==
    /\ pc = "ready"
    /\ \E p, q \in Operands : Run(followedBy(p, q), "followedBy", <<p, q>>)

ParseSeq ==
    /\ pc = "ready"
    /\ \/ \E p, q, r \in Base : Run(seq(<<p, q, r>>), "seq", <<p, q, r>>)
       \/ \E p, q, r \in Skips : Run(seq(<<p, q, r>>), "seq", <<p, q, r>>)

ParseThenChain ==
    /\ pc = "ready"
    /\ \/ \E p, q, r \in Base : Run(then(then(p, q), r), "then3", <<p, q, r>>)
       \/ \E a, b, c, d \in Chars :
             Run(then(then(then(a, b), c), d), "then4", <<a, b, c, d>>)

ParseMany ==
    /\ pc = "ready"
    /\ \E p \in Repeatable : Run(many(p), "many", <<p>>)

ParseMany1 ==
    /\ pc = "ready"
    /\ \E p \in Repeatable : Run(many1(p), "many1", <<p>>)

ParseTimes ==
    /\ pc = "ready"
    /\ \E p \in Operands, n \in 0..MaxTimes : Run(times(p, n), "times", <<p>>)

ParsePeek ==
    /\ pc = "ready"
    /\ \E p \in Operands \cup {or(string(<<"a", "b">>), char("b"))} : Run(peek(p), "peek", <<p>>)

ParseUntil ==
    /\ pc = "ready"
    /\ \E p \in Repeatable, t \in Operands : Run(until(p, t), "until", <<p, t>>)

ParseUntilClass ==
    /\ pc = "ready"
    /\ \E p \in Repeatable \ Skips, t \in Values : Run(Until(p, t), "Until", <<p, t>>)

ParseNot ==
    /\ pc = "ready"
    /\ \E p \in Operands \cup {or(string(<<"a", "b">>), char("b"))} : Run(not(p), "not", <<p>>)

ParseSkip ==
    /\ pc = "ready"
    /\ \E p \in Operands : Run(skip(p), "skip", <<p>>)

ParseSkipThenSkip ==
    /\ pc = "ready"
    /\ \E p, q \in Operands : Run(then(skip(p), skip(q)), "skipThenSkip", <<p, q>>)

ParseExpect ==
    /\ pc = "ready"
    /\ \E p \in Operands, what \in Labels : Run(expect(p, what), "expect", <<p>>)

ParseOptional ==
    /\ pc = "ready"
    /\ \E p \in Operands : Run(optional(p), "optional", <<p>>)

ParseOptionalThen ==
    /\ pc = "ready"
    /\ \E p \in Operands, q \in Chars :
          Run(then(optional(p), q), "optionalThen", <<p, q>>)

ParseSepBy ==
    /\ pc = "ready"
    /\ \E p \in SepElems, sep \in Separators : Run(sepBy(p, sep), "sepBy", <<p, sep>>)

ParseSepBy1 ==
    /\ pc = "ready"
    /\ \E p \in SepElems, sep \in Separators : Run(sepBy1(p, sep), "sepBy1", <<p, sep>>)

ParseDerivedThen ==
    /\ pc = "ready"
    /\ \E d \in Derivations, p \in RepeatableSkips, v \in Chars :
          Run(then(Derive(d, p), v), DerivedOp(d), <<p, v>>)

ParseUntilFollowedBy ==
    /\ pc = "ready"
    /\ \E p \in Repeatable \ Skips, t \in Values :
          Run(untilFollowedBy(p, t), "untilFollowedBy", <<p, t>>)

\* The line ends and a unit that is none.
NewLineAlphabet == {"\r", "\n", "a"}

NewLineInputs == UNION {[1..n -> NewLineAlphabet] : n \in 0..MaxLen}

InitNewLine ==
    /\ input \in NewLineInputs
    /\ pos \in 0..Len(input)
    /\ pc = "ready"
    /\ parser = NoParser
    /\ how = [op |-> "none", args |-> <<>>]
    /\ start = 0
    /\ result = NoResult
    /\ calls = <<>>

ParseNewLine ==
    /\ pc = "ready"
    /\ Run(new_line, "new_line", <<>>)

ParseNewLineMany1 ==
    /\ pc = "ready"
    /\ Run(many1(new_line), "new_line_many1", <<>>)

NextNewLine ==
    \/ Read
    \/ ParseNewLine
    \/ ParseNewLineMany1

SpecNewLine == InitNewLine /\ [][NextNewLine]_vars

\* ---------------------------------------------------------------- many, run by run
\* Many.parse and SkipMany.parse one run of the loop at a time: pc is
\* "loop" while the call has not returned, and calls holds the runs of
\* the repeated parser that succeeded so far, "ret" being their values.
\* The repeated parsers: value parsers and a discardable one whose every
\* success consumes, and ones that succeed without consuming, everywhere
\* (always) or at the end of the input (eof).
LoopBodies ==
    Base \cup {skip(char("a")), always(Str("v")), skip(always(Undef)), eof}

\* One run of the loop with "source.pos = pos" done after every run of
\* the parser, not only after a failed one.
Many_iteration_PutsBack(self, in, p) ==
    LET res == parse(self.kids[1], in, p, <<1>>)
    IN  [returns |-> ~res.res.success, pos |-> p, value |-> res.res.value]

\* One run of the loop of Many.parse or SkipMany.parse from position p:
\* whether the call returns, the position it leaves, the value to push.
Many_iteration(self, in, p) ==
    LET res == parse(self.kids[1], in, p, <<1>>)
    IN  IF ~res.res.success
        THEN [returns |-> TRUE, pos |-> p, value |-> Undef]
        ELSE [returns |-> FALSE, pos |-> res.pos, value |-> res.res.value]

\* "ret" of Many.parse.
Ret == [i \in 1..Len(calls) |-> calls[i].value]

ManyEnter ==
    /\ pc = "ready"
    /\ \E p \in LoopBodies :
          /\ parser' = many(p)
          /\ how' = [op |-> "manyLoop", args |-> <<p>>]
    /\ start' = pos
    /\ calls' = <<>>
    /\ pc' = "loop"
    /\ UNCHANGED <<input, pos, result>>

\* The values pushed are recorded up to one more than the input has
\* units: a loop that runs on after that pushes on without end.
ManyIterate ==
    /\ pc = "loop"
    /\ LET it == Many_iteration(parser, input, pos)
       IN  /\ pos' = it.pos
           /\ IF it.returns
              THEN /\ pc' = "done"
                   /\ result' = IF parser.cls = "SkipMany" THEN ParseResultOk(Undef)
                                                           ELSE ParseResultOk(Arr(Ret))
                   /\ calls' = calls
              ELSE /\ pc' = "loop"
                   /\ result' = result
                   /\ calls' = IF Len(calls) > Len(input) THEN calls
                               ELSE Append(calls, [path |-> <<1>>, at |-> pos, to |-> it.pos,
                                                   ok |-> TRUE, value |-> it.value])
    /\ UNCHANGED <<input, parser, how, start>>

NextLoop ==
    \/ ManyEnter
    \/ ManyIterate

\* The loop is sequential code: a call that has not returned goes on.
SpecLoop == Init /\ [][NextLoop]_vars /\ WF_vars(ManyIterate)

\* ---------------------------------------------------------------- string_literal
\* string_literal() with its default boundary and escape character, over
\* inputs of quotes, backslashes and a unit that is neither.
Quote == "\""

Backslash == "\\"

LiteralAlphabet == {Quote, Backslash, "a"}

LiteralInputs == UNION {[1..n -> LiteralAlphabet] : n \in 0..MaxLen}

boundary == char(Quote)

escape_character == char(Backslash)

\* The two alternatives the other way round: the plain unit is tried first.
escaped_character_AnyFirst == or(any, next(escape_character, any))

escaped_character == or(next(escape_character, any), any)

string_literal ==
    join(next(boundary, untilFollowedBy(escaped_character, boundary)), "")

\* The UntilFollowedBy object inside string_literal().
LiteralBody == <<1, 2>>

\* One run of UntilFollowedBy.parse's loop that goes on after a failed
\* run of the repeated parser.
UntilFollowedBy_iteration_GoesOn(self, in, p) ==
    LET until_res == parse(self.kids[2], in, p, LiteralBody \o <<2>>)
        res       == parse(self.kids[1], in, p, LiteralBody \o <<1>>)
    IN  IF until_res.res.success
        THEN [kind |-> "ok", pos |-> until_res.pos, res |-> until_res.res]
        ELSE [kind |-> "more", pos |-> res.pos, res |-> res.res]

\* One run of UntilFollowedBy.parse's loop from position p: the terminator
\* matched and the call returns its results ("ok"), the repeated parser
\* gave one more result ("more"), or it failed and the call returns that
\* failure ("fail").
UntilFollowedBy_iteration(self, in, p) ==
    LET until_res == parse(self.kids[2], in, p, LiteralBody \o <<2>>)
        res       == parse(self.kids[1], in, p, LiteralBody \o <<1>>)
    IN  IF until_res.res.success
        THEN [kind |-> "ok", pos |-> until_res.pos, res |-> until_res.res]
        ELSE IF res.res.success
             THEN [kind |-> "more", pos |-> res.pos, res |-> res.res]
             ELSE [kind |-> "fail", pos |-> res.pos, res |-> res.res]

\* The positions a Source over these inputs can be at.
LiteralPoints ==
    {x \in LiteralInputs \X (0..MaxLen) : x[2] <= Len(x[1])}

\* The run of the loop of string_literal()'s UntilFollowedBy object from
\* each of these positions, as an explicit table (@@ builds one).
LiteralRun ==
    [x \in LiteralPoints |->
        UntilFollowedBy_iteration(string_literal.kids[1].kids[2], x[1], x[2])] @@ <<>>

InitLiteral ==
    /\ input \in LiteralInputs
    /\ pos \in 0..Len(input)
    /\ pc = "ready"
    /\ parser = NoParser
    /\ how = [op |-> "none", args |-> <<>>]
    /\ start = 0
    /\ result = NoResult
    /\ calls = <<>>

\* Join.parse calls Next.parse, which runs the boundary: its failure is
\* handed back through both, its success enters UntilFollowedBy.parse.
LiteralEnter ==
    /\ pc = "ready"
    /\ parser' = string_literal
    /\ how' = [op |-> "string_literal", args |-> <<>>]
    /\ start' = pos
    /\ calls' = <<>>
    /\ LET first_result == parse(string_literal.kids[1].kids[1], input, pos, <<1, 1>>)
       IN  /\ pos' = first_result.pos
           /\ IF first_result.res.success
              THEN /\ pc' = "loop"
                   /\ result' = result
              ELSE /\ pc' = "done"
                   /\ result' = first_result.res
    /\ UNCHANGED input

\* One run of the loop; calls holds the results pushed so far. When the
\* loop returns, Next.parse hands the result on and Join.parse joins a
\* success. (No run of the code pushes more results than the input has
\* units; past that number the results are no longer recorded.)
LiteralIterate ==
    /\ pc = "loop"
    /\ LET it == LiteralRun[<<input, pos>>]
       IN  /\ pos' = it.pos
           /\ CASE it.kind = "ok" ->
                     /\ pc' = "done"
                     /\ result' = ParseResultOk(Str(JoinStr(Ret, parser.str)))
                     /\ calls' = calls
                [] it.kind = "fail" ->
                     /\ pc' = "done"
                     /\ result' = it.res
                     /\ calls' = calls
                [] it.kind = "more" ->
                     /\ pc' = "loop"
                     /\ result' = result
                     /\ calls' = IF Len(calls) > Len(input) THEN calls
                                 ELSE Append(calls, [path |-> LiteralBody \o <<1>>,
                                                     at |-> pos, to |-> it.pos,
                                                     ok |-> TRUE, value |-> it.res.value])
    /\ UNCHANGED <<input, parser, how, start>>

NextLiteral ==
    \/ LiteralEnter
    \/ LiteralIterate

\* The loop is sequential code: a call that has not returned goes on.
SpecLiteral == InitLiteral /\ [][NextLiteral]_vars /\ WF_vars(LiteralIterate)

Next ==
    \/ Read
    \/ ParseOperand
    \/ ParseString
    \/ ParseOneOf
    \/ ParseOr
    \/ ParseThen
    \/ ParseNext
    \/ ParseFollowedBy
    \/ ParseSeq
    \/ ParseThenChain
    \/ ParseMany
    \/ ParseMany1
    \/ ParseTimes
    \/ ParsePeek
    \/ ParseUntil
    \/ ParseUntilClass
    \/ ParseNot
    \/ ParseSkip
    \/ ParseSkipThenSkip
    \/ ParseExpect
    \/ ParseOptional
    \/ ParseOptionalThen
    \/ ParseSepBy
    \/ ParseSepBy1
    \/ ParseDerivedThen
    \/ ParseUntilFollowedBy

Spec == Init /\ [][Next]_vars

\* ---------------------------------------------------------------- reading a run
Done == pc = "done"

\* The calls the parser under test made on its own sub-parsers, in order.
IsDirect(e) == Len(e.path) = 1

Direct == SelectSeq(calls, IsDirect)

\* What p does when run alone on this input from position at.
Alone(p, at) == parse(p, input, at, <<>>)

RECURSIVE NodeAt(_, _)

\* The sub-parser a path of the calls names.
NodeAt(p, path) == IF path = <<>> THEN p ELSE NodeAt(p.kids[Head(path)], Tail(path))

RECURSIVE Runs(_, _, _)

\* The outcomes of running p again and again from position at, each run
\* starting where the one before ended, up to and including the first
\* failure, and k runs at most.
Runs(p, at, k) ==
    IF k = 0 THEN <<>>
    ELSE LET o == Alone(p, at)
         IN  IF o.res.success THEN <<o>> \o Runs(p, o.pos, k - 1) ELSE <<o>>

ValuesOf(os) == [i \in 1..Len(os) |-> os[i].res.value]

TypeOK ==
    /\ pos \in 0..Len(input)
    /\ pc \in {"ready", "done"}

\* ---------------------------------------------------------------- claims
\* C1: wherever P.peek() is run, for a value parser (Peek) or a
\* discardable one (PeekSkip), on success and on failure, the position is
\* after the call what it was before it.
C1_PeekKeepsPosition ==
    Done =>
        /\ \A i \in 1..Len(calls) :
              NodeAt(parser, calls[i].path).cls \in {"Peek", "PeekSkip"}
                  => calls[i].to = calls[i].at
        /\ how.op = "peek" => pos = start /\ result = Alone(how.args[1], start).res

\* A discardable P that fails after consuming, under peek.
C1_Witness ==
    /\ Done
    /\ how.op = "peek"
    /\ parser.cls = "PeekSkip"
    /\ ~result.success
    /\ Alone(how.args[1], start).pos > start
    /\ pos = start

\* C3: P.or(Q) started at p returns P's success without running Q; when P
\* fails, Q runs from p and or returns Q's outcome as it is, success or
\* failure, with nothing of P's failure in it.
C3_OrFirstSuccessElseSecondVerbatim ==
    Done /\ how.op = "or" =>
        LET rp == Alone(how.args[1], start)
            rq == Alone(how.args[2], start)
        IN  IF rp.res.success
            THEN /\ result = rp.res
                 /\ pos = rp.pos
                 /\ ~\E i \in 1..Len(calls) : calls[i].path = <<2>>
            ELSE /\ result = rq.res
                 /\ pos = rq.pos
                 /\ \E i \in 1..Len(calls) : calls[i].path = <<2>> /\ calls[i].at = start

\* Both sides fail, P after consuming, and the two failures differ.
C3_Witness ==
    /\ Done
    /\ how.op = "or"
    /\ ~result.success
    /\ Alone(how.args[1], start).pos > start
    /\ Alone(how.args[1], start).res # result
    /\ Alone(how.args[2], start).res = result

\* C4: the value of a successful P.then(Q) is the pair (p, q) when neither
\* side is discardable, q when only P is, p when only Q is, undefined when
\* both are; a chain a.then(b).then(c).then(d) of value parsers yields
\* [[[a, b], c], d].
C4_ThenValueShape ==
    /\ Done /\ how.op = "then" /\ result.success =>
          LET P  == how.args[1]
              Q  == how.args[2]
              rp == Alone(P, start)
              rq == Alone(Q, rp.pos)
          IN  result.value =
                  IF is_skip(P)
                  THEN IF is_skip(Q) THEN Undef ELSE rq.res.value
                  ELSE IF is_skip(Q) THEN rp.res.value
                       ELSE Arr(<<rp.res.value, rq.res.value>>)
    /\ Done /\ how.op = "then4" /\ result.success =>
          LET ra == Alone(how.args[1], start)
              rb == Alone(how.args[2], ra.pos)
              rc == Alone(how.args[3], rb.pos)
              rd == Alone(how.args[4], rc.pos)
          IN  result.value =
                  Arr(<<Arr(<<Arr(<<ra.res.value, rb.res.value>>), rc.res.value>>),
                        rd.res.value>>)

\* A chain of four value parsers that succeeds.
C4_Witness ==
    /\ Done
    /\ how.op = "then4"
    /\ result.success
    /\ pos = start + 4

SeqClasses == {"Then", "Next", "FollowedBy", "SkipSeq", "Seq"}

\* C5: a sequence runs its parsers left to right, each from the position
\* the one before ended at, and stops at the first that fails: none after
\* it is run and the position stays where the failing one stopped.
C5_SequenceStopsAtFirstFailure ==
    Done /\ parser.cls \in SeqClasses =>
        LET cc == Direct
            n  == Len(cc)
        IN  /\ n >= 1
            /\ cc[1].path = <<1>>
            /\ cc[1].at = start
            /\ \A i \in 1..(n - 1) :
                  /\ cc[i].ok
                  /\ cc[i + 1].path = <<i + 1>>
                  /\ cc[i + 1].at = cc[i].to
            /\ pos = cc[n].to
            /\ result.success = cc[n].ok
            /\ cc[n].ok => n = Len(parser.kids)

\* The left side of a then fails after consuming and the right is not run.
C5_Witness ==
    /\ Done
    /\ how.op = "then"
    /\ parser.cls = "Then"
    /\ ~result.success
    /\ Len(Direct) = 1
    /\ pos > start

\* C2: a successful P.until(T) has the values of P's runs as its value,
\* without T's, and leaves the position where T matched, T unconsumed.
C2_UntilLeavesTerminator ==
    Done /\ how.op = "until" /\ ~is_skip(how.args[1]) /\ result.success =>
        /\ Alone(how.args[2], pos).res.success
        /\ \E k \in 0..Len(input) :
              LET rs == Runs(how.args[1], start, k)
              IN  /\ Len(rs) = k
                  /\ \A i \in 1..k : rs[i].res.success
                  /\ pos = IF k = 0 THEN start ELSE rs[k].pos
                  /\ result.value = Arr(ValuesOf(rs))

\* C6: the failure a sequence returns is the failure of the parser that
\* failed, the first one or a later one, with its reason.
C6_SequenceFailureIsConstituents ==
    Done /\ parser.cls \in SeqClasses /\ ~result.success =>
        LET n == Len(Direct)
        IN  result = Alone(parser.kids[n], Direct[n].at).res

\* C7: seq(P, Q, R) over value parsers succeeds when P.then(Q).then(R)
\* does, with the values [p, q, r] of the nested pair [[p, q], r], at the
\* same position; when they fail, both stop where the failing parser did.
C7_SeqAgreesWithThenChain ==
    Done /\ how.op = "seq" /\ ~is_skip(how.args[1]) =>
        LET P == how.args[1]
            Q == how.args[2]
            R == how.args[3]
            t == Alone(then(then(P, Q), R), start)
            n == Len(Direct)
        IN  /\ result.success = t.res.success
            /\ pos = t.pos
            /\ result.success =>
                  /\ result.value = Arr(<<t.res.value.items[1].items[1],
                                          t.res.value.items[1].items[2],
                                          t.res.value.items[2]>>)
                  /\ result.value = Arr(<<Alone(P, Direct[1].at).res.value,
                                          Alone(Q, Direct[2].at).res.value,
                                          Alone(R, Direct[3].at).res.value>>)
            /\ ~result.success =>
                  /\ ~Direct[n].ok
                  /\ pos = Alone(how.args[n], Direct[n].at).pos

\* seq fails at its second parser, which consumed before failing.
C7_Witness ==
    /\ Done
    /\ how.op = "seq"
    /\ ~is_skip(how.args[1])
    /\ ~result.success
    /\ Len(Direct) = 2
    /\ pos > Direct[2].at

\* C8: P.many() returns a success: the values of P's successive runs up
\* to the first that fails (undefined for a discardable P), at the
\* position the last successful run ended at.
C8_ManyNeverFails ==
    /\ Done =>
          \A i \in 1..Len(calls) :
              NodeAt(parser, calls[i].path).cls \in {"Many", "SkipMany"} => calls[i].ok
    /\ Done /\ how.op = "many" =>
          LET P  == how.args[1]
              rs == Runs(P, start, Len(input) + 1)
              n  == Len(rs)
          IN  /\ ~rs[n].res.success
              /\ result.success
              /\ result.value = IF is_skip(P) THEN Undef
                                ELSE Arr(ValuesOf(SubSeq(rs, 1, n - 1)))
              /\ pos = IF n = 1 THEN start ELSE rs[n - 1].pos

\* many collected a value and its last, failing run had consumed.
C8_Witness ==
    /\ Done
    /\ how.op = "many"
    /\ result.success
    /\ Len(result.value.items) >= 1
    /\ Alone(how.args[1], pos).pos > pos

\* C9: P.many1() fails when P's first run fails, with that run's failure;
\* otherwise it succeeds with the first value followed by those P.many()
\* collects from there (undefined for a discardable P).
C9_Many1FirstRunDecides ==
    Done /\ how.op = "many1" =>
        LET P  == how.args[1]
            r1 == Alone(P, start)
            m  == Alone(many(P), r1.pos)
        IN  IF ~r1.res.success
            THEN result = r1.res /\ pos = r1.pos
            ELSE /\ result.success
                 /\ result.value = IF is_skip(P) THEN Undef
                                   ELSE Arr(<<r1.res.value>> \o m.res.value.items)
                 /\ pos = m.pos

\* C10: P.times(n) runs P n times, each run from where the one before
\* ended; n successes give the n values (undefined for a discardable P);
\* a failing run ends it with that run's failure, the runs after it not
\* made; times(0) succeeds with nothing run.
C10_TimesRunsExactlyN ==
    Done /\ how.op = "times" =>
        LET P  == how.args[1]
            n  == parser.n
            rs == Runs(P, start, n)
            k  == Len(rs)
        IN  /\ Len(Direct) = k
            /\ \A i \in 1..k : Direct[i].at = IF i = 1 THEN start ELSE rs[i - 1].pos
            /\ IF n = 0
               THEN /\ result.success
                    /\ result.value = IF is_skip(P) THEN Undef ELSE Arr(<<>>)
                    /\ pos = start
               ELSE IF rs[k].res.success
               THEN /\ k = n
                    /\ result.success
                    /\ result.value = IF is_skip(P) THEN Undef ELSE Arr(ValuesOf(rs))
                    /\ pos = rs[k].pos
               ELSE /\ result = rs[k].res
                    /\ pos = rs[k].pos

\* The first of two runs fails and the second is not made.
C10_Witness ==
    /\ Done
    /\ how.op = "times"
    /\ parser.n >= 2
    /\ ~result.success
    /\ Len(Direct) = 1

\* C11: P.not() succeeds, with the void value, exactly when P fails where
\* not is started, and fails exactly when P succeeds there; in both cases
\* the position after the call is the position before it.  The same holds
\* of every Not inside a larger parser.
C11_NotInvertsWithoutConsuming ==
    Done =>
        /\ \A i \in 1..Len(calls) :
              NodeAt(parser, calls[i].path).cls = "Not"
                  => /\ calls[i].to = calls[i].at
                     /\ calls[i].ok =>
                            calls[i].value = Undef
        /\ how.op = "not" =>
              /\ result.success = ~Alone(how.args[1], start).res.success
              /\ result.success => result.value = Undef
              /\ pos = start

\* P succeeds after consuming, so that not fails, and the position is back.
C11_Witness ==
    /\ Done
    /\ how.op = "not"
    /\ ~result.success
    /\ Alone(how.args[1], start).res.success
    /\ Alone(how.args[1], start).pos > start
    /\ pos = start

\* P fails after consuming, so that not succeeds, and the position is back.
C11_WitnessSucceeds ==
    /\ Done
    /\ how.op = "not"
    /\ result.success
    /\ Alone(how.args[1], start).pos > start
    /\ pos = start

\* C12: P.skip().then(Q.skip()) succeeds exactly when P.then(Q) does; its
\* success value is the void value, and it leaves the position where
\* P.then(Q) leaves it.
C12_SkipThenSkipIsThenWithoutValue ==
    Done /\ how.op = "skipThenSkip" =>
        LET t == Alone(then(how.args[1], how.args[2]), start)
        IN  /\ parser.cls = "SkipSeq"
            /\ result.success = t.res.success
            /\ result.success => result.value = Undef
            /\ pos = t.pos

\* Two value parsers that both consume: P.then(Q) yields a pair, the
\* sequence of the two skips yields the void value at the same position.
C12_Witness ==
    /\ Done
    /\ how.op = "skipThenSkip"
    /\ result.success
    /\ result.value = Undef
    /\ LET t == Alone(then(how.args[1], how.args[2]), start)
       IN  /\ t.res.value.t = "arr"
           /\ t.pos > start + 1
           /\ pos = t.pos

RECURSIVE WellTyped(_)

\* The parsers TypeScript's overloads of or accept: "or(this: Skip, other:
\* Skip)" and "or(this: Parser<T>, other: Parser<T>)", never a discardable
\* parser with a value parser.
WellTyped(p) ==
    /\ p.cls = "parse_or" => is_skip(p.kids[1]) = is_skip(p.kids[2])
    /\ \A i \in 1..Len(p.kids) : WellTyped(p.kids[i])

\* C13: every successful call of a discardable parser, the parser under
\* test or any parser under it, yields the void value; P.skip() succeeds
\* exactly when P does, leaves the position where P leaves it, and on
\* failure returns P's failure as it is.
C13_DiscardableYieldsVoid ==
    Done /\ WellTyped(parser) =>
        /\ \A i \in 1..Len(calls) :
              is_skip(NodeAt(parser, calls[i].path)) /\ calls[i].ok
                  => calls[i].value = Undef
        /\ how.op = "skip" =>
              LET r == Alone(how.args[1], start)
              IN  /\ result.success = r.res.success
                  /\ pos = r.pos
                  /\ result.success => result.value = Undef
                  /\ ~result.success => result = r.res

\* P yields a value after consuming; P.skip() yields the void value there.
C13_Witness ==
    /\ Done
    /\ how.op = "skip"
    /\ result.success
    /\ result.value = Undef
    /\ Alone(how.args[1], start).res.value # Undef
    /\ pos > start

\* The derived discardable parsers that succeed: or, expect and optional
\* on a discardable parser, a discardable sepBy, a sequence of two.
C13_WitnessDerived ==
    /\ Done
    /\ result.success
    /\ is_skip(parser)
    /\ parser.cls \in {"parse_or", "parse_expect", "parse_optional", "SkipSeq",
                       "SkipMany", "TimesSkip", "PeekSkip"}
    /\ WellTyped(parser)
    /\ pos > start

\* C14: P.expect(label) returns P's success as it is; when P fails it
\* fails where P's failure left the position, with the reason
\* "expecting " followed by the label.
C14_ExpectRelabelsFailure ==
    Done /\ how.op = "expect" =>
        LET r == Alone(how.args[1], start)
        IN  /\ pos = r.pos
            /\ IF r.res.success
               THEN result = r.res
               ELSE result = ParseResultFail("source", <<"expecting " \o parser.str>>)

\* What the code does of C14: the success and the position are P's, the
\* reason of the failure is "expecting undefined" whatever the label.
C14_ExpectReasonIsUndefined ==
    Done /\ how.op = "expect" =>
        LET r == Alone(how.args[1], start)
        IN  /\ pos = r.pos
            /\ IF r.res.success
               THEN result = r.res
               ELSE result = ParseResultFail("source", <<"expecting undefined">>)

\* The value the second parser of the parser under test yielded.
SecondValue == Direct[2].value

\* C15: for a discardable P, each of P.expect(l), P.peek(), P.optional(),
\* P.or(Q.skip()), P.times(n), P.many(), P.many1(), P.sepBy(s),
\* P.sepBy1(s) and P.followedBy(X) is discardable, and followed by
\* .then(V), V a value parser, it yields V's value alone; P.map(f), f a
\* function of no argument, is a value parser and P.map(f).then(V) yields
\* the pair [f(), v].
C15_DiscardableSurvivesDerivation ==
    Done =>
        \A d \in Derivations :
            how.op = DerivedOp(d) =>
                LET D == Derive(d, how.args[1])
                IN  /\ parser.kids[1] = D
                    /\ is_skip(D) = (d # "map")
                    /\ result.success =>
                          /\ Alone(how.args[2], Direct[2].at).res.value = SecondValue
                          /\ IF d = "map"
                             THEN result.value = Arr(<<Apply("const", Undef), SecondValue>>)
                             ELSE result.value = SecondValue

\* P.times(n) of a discardable P that consumes, then V: V's value alone.
C15_Witness ==
    /\ Done
    /\ how.op = DerivedOp("times")
    /\ result.success
    /\ result.value.t = "str"
    /\ Direct[2].at > start

\* Call i of the repeated parser comes right after a probe of the
\* terminator at the same position: between the two there are only the
\* calls the probe itself made.
ProbedBefore(i, probe) ==
    \E j \in 1..(i - 1) :
        /\ calls[j].path = probe
        /\ calls[j].at = calls[i].at
        /\ \A k \in (j + 1)..(i - 1) : Len(calls[k].path) > Len(probe)

\* The order of the probes of terminator T, made by the sub-parser at path
\* probe, and of the runs of the repeated parser, the sub-parser at path
\* repeat.
ProbesFirst(T, probe, repeat) ==
    /\ \E i \in 1..Len(calls) :
          /\ calls[i].path = probe
          /\ calls[i].at = start
          /\ \A j \in 1..(i - 1) : calls[j].path # repeat
    /\ \A i \in 1..Len(calls) :
          calls[i].path = repeat =>
              /\ ~Alone(T, calls[i].at).res.success
              /\ ProbedBefore(i, probe)
    /\ \A i \in 1..Len(calls) :
          calls[i].path = probe /\ Alone(T, calls[i].at).res.success =>
              \A j \in (i + 1)..Len(calls) : calls[j].path \notin {probe, repeat}

\* The position of the last probe of the terminator.
LastProbe(probe) ==
    calls[CHOOSE i \in 1..Len(calls) :
              /\ calls[i].path = probe
              /\ \A j \in (i + 1)..Len(calls) : calls[j].path # probe].at

\* C16: P.until(T) probes T at the current position before every run of
\* P, the first included: P is never run at a position where T matches,
\* and the accumulation ends at the first such position, P matching there
\* or not.  Parser.until composes the probe as until.not(); the Until
\* class probes in its loop.
C16_UntilProbesTerminatorFirst ==
    Done =>
        /\ how.op = "until" =>
              /\ NodeAt(parser, <<1, 1, 1>>) = not(how.args[2])
              /\ NodeAt(parser, <<1, 1, 2>>) = how.args[1]
              /\ ProbesFirst(how.args[2], <<1, 1, 1>>, <<1, 1, 2>>)
              /\ Alone(how.args[2], LastProbe(<<1, 1, 1>>)).res.success
                    => Direct[1].to = LastProbe(<<1, 1, 1>>)
        /\ how.op = "Until" =>
              /\ ProbesFirst(how.args[2], <<2>>, <<1>>)
              /\ Alone(how.args[2], LastProbe(<<2>>)).res.success
                    => result.success /\ pos = LastProbe(<<2>>)

\* The accumulation of Parser.until ends, after a run of P, at a position
\* where T matches and P would match too.
C16_Witness ==
    /\ Done
    /\ how.op = "until"
    /\ result.success
    /\ Direct[1].to > start
    /\ Alone(how.args[2], Direct[1].to).res.success
    /\ Alone(how.args[1], Direct[1].to).res.success
    /\ \A i \in 1..Len(calls) : calls[i].path = <<1, 1, 2>> => calls[i].at < Direct[1].to

\* The same in a run of the Until class.
C16_WitnessClass ==
    /\ Done
    /\ how.op = "Until"
    /\ result.success
    /\ pos > start
    /\ Alone(how.args[1], pos).res.success

\* C17: when, in P.until(T), T does not match and P then fails, until
\* fails, and its failure is P's: P's reason, the position where P's
\* failure left it.
C17_UntilFailsWithRepeatedsFailure ==
    Done /\ how.op = "until" =>
        \A i \in 1..Len(calls) :
            calls[i].path = <<1, 1, 2>> /\ ~calls[i].ok =>
                /\ ~result.success
                /\ result = Alone(how.args[1], calls[i].at).res
                /\ pos = calls[i].to

\* What Parser.until does of C17: many() takes P's failure as the end of
\* the repetition and puts the position back, and the failure returned is
\* the one of the terminator run there by then(until).
C17_UntilFailsWithTerminatorsFailure ==
    Done /\ how.op = "until" =>
        \A i \in 1..Len(calls) :
            calls[i].path = <<1, 1, 2>> /\ ~calls[i].ok =>
                /\ ~result.success
                /\ result = Alone(how.args[2], calls[i].at).res
                /\ pos = Alone(how.args[2], calls[i].at).pos

\* What the Until class does of C17: the failure is P's.
C17_UntilClassFailsWithRepeatedsFailure ==
    Done /\ how.op = "Until" =>
        \A i \in 1..Len(calls) :
            calls[i].path = <<1>> /\ ~calls[i].ok =>
                /\ ~result.success
                /\ result = Alone(how.args[1], calls[i].at).res
                /\ pos = calls[i].to

\* C18 as the specification has it: P.untilFollowedBy(T) is until with
\* the terminator's match consumed, and, P and T both value parsers, its
\* value is the pair of the accumulated sequence and the terminator's
\* value.
C18_UntilFollowedByYieldsPair ==
    Done /\ how.op = "untilFollowedBy" /\ result.success =>
        LET u == Alone(Until(how.args[1], how.args[2]), start)
            t == Alone(how.args[2], u.pos)
        IN  /\ pos = t.pos
            /\ ~is_skip(how.args[1]) /\ ~is_skip(how.args[2])
                  => result.value = Arr(<<u.res.value, t.res.value>>)

\* C18, amended: P.untilFollowedBy(T) does what the Until class does,
\* except that it leaves the position after the terminator's match; its
\* value is the sequence of P's values alone, the terminator's value is
\* dropped; it fails, as Until does, with P's failure.
C18_UntilFollowedByConsumesTerminator ==
    Done /\ how.op = "untilFollowedBy" =>
        LET u == Alone(Until(how.args[1], how.args[2]), start)
            t == Alone(how.args[2], u.pos)
        IN  /\ result = u.res
            /\ ProbesFirst(how.args[2], <<2>>, <<1>>)
            /\ IF result.success
               THEN /\ t.res.success
                    /\ pos = t.pos
                    /\ result.value = Arr([i \in 1..Len(result.value.items) |->
                                               Direct[2 * i].value])
               ELSE pos = u.pos

\* P ran at least once and the terminator's match, a unit long at least,
\* is consumed: the value is P's values, the position is after the match.
C18_Witness ==
    /\ Done
    /\ how.op = "untilFollowedBy"
    /\ result.success
    /\ Len(result.value.items) > 0
    /\ LET u == Alone(Until(how.args[1], how.args[2]), start)
       IN  /\ u.pos > start
           /\ pos > u.pos
           /\ result.value = u.res.value

IsOk(o) == o.res.success

\* The occurrences of P after the first one, each behind a separator S:
\* the successful runs of S followed by P, from position at on.
Separated(P, S, at) == SelectSeq(Runs(next(S, P), at, Len(input) + 1), IsOk)

\* C19: P.sepBy(S) never fails; where P does not match it yields the
\* empty sequence, or the void value when P is discardable, and leaves
\* the position.  Where P matches n >= 1 times with S in between, sepBy
\* and sepBy1 yield P's n values in order, without the separators', or
\* the void value when P is discardable, and leave the position after the
\* last P.  sepBy1 fails where P does not match.
C19_SepByCollectsSeparated ==
    Done /\ how.op \in {"sepBy", "sepBy1"} =>
        LET P     == how.args[1]
            first == Alone(P, start)
            more  == Separated(P, how.args[2], first.pos)
        IN  IF first.res.success
            THEN /\ result.success
                 /\ result.value = IF is_skip(P) THEN Undef
                                   ELSE Arr(<<first.res.value>> \o ValuesOf(more))
                 /\ pos = IF more = <<>> THEN first.pos ELSE more[Len(more)].pos
            ELSE IF how.op = "sepBy1"
                 THEN ~result.success
                 ELSE /\ result.success
                      /\ result.value = IF is_skip(P) THEN Undef ELSE Arr(<<>>)
                      /\ pos = start

\* Two occurrences of P around a separator that yields a value.
C19_Witness ==
    /\ Done
    /\ how.op = "sepBy"
    /\ ~is_skip(how.args[2])
    /\ result.success
    /\ Len(result.value.items) = 2
    /\ pos > start + 2

\* sepBy where P fails after consuming: the empty sequence, nothing consumed.
C19_WitnessEmpty ==
    /\ Done
    /\ how.op = "sepBy"
    /\ result = ParseResultOk(Arr(<<>>))
    /\ Alone(how.args[1], start).pos > start + 1
    /\ pos = start

\* sepBy1 where P does not match.
C19_WitnessFails ==
    /\ Done
    /\ how.op = "sepBy1"
    /\ ~result.success

IsLineEnd(c) == c \in {"\r", "\n"}

\* A "\r" at position at with a "\n" right behind it.
IsCRLF(in, at) == at + 2 <= Len(in) /\ in[at + 1] = "\r" /\ in[at + 2] = "\n"

RECURSIVE GreedySplit(_, _)

\* The line ends from position at up to the first unit that is none, split
\* from the left, a "\r" with a "\n" right behind it being one of them.
GreedySplit(in, at) ==
    IF at >= Len(in) \/ ~IsLineEnd(in[at + 1]) THEN <<>>
    ELSE IF IsCRLF(in, at) THEN <<Str("\r\n")>> \o GreedySplit(in, at + 2)
    ELSE <<Str(in[at + 1])>> \o GreedySplit(in, at + 1)

RECURSIVE LineEndsUpTo(_, _)

\* The position of the first unit, from position at on, that is no line
\* end, the end of the input if there is none.
LineEndsUpTo(in, at) ==
    IF at >= Len(in) \/ ~IsLineEnd(in[at + 1]) THEN at ELSE LineEndsUpTo(in, at + 1)

\* C20: new_line() matches "\r\n", "\r" or "\n": on a "\r" with a "\n"
\* behind it, it consumes both and yields "\r\n"; on another "\r" or "\n"
\* it consumes that unit and yields it; on anything else it fails.
\* new_line().many1() on a string of "\r" and "\n" units, one at least,
\* consumes all of it and yields its split from the left into line ends.
C20_NewLinePrefersCRLF ==
    Done =>
        /\ how.op = "new_line" =>
              IF IsCRLF(input, start)
              THEN result = ParseResultOk(Str("\r\n")) /\ pos = start + 2
              ELSE IF start < Len(input) /\ IsLineEnd(input[start + 1])
                   THEN result = ParseResultOk(Str(input[start + 1])) /\ pos = start + 1
                   ELSE ~result.success
        /\ how.op = "new_line_many1" =>
              IF LineEndsUpTo(input, start) > start
              THEN /\ result = ParseResultOk(Arr(GreedySplit(input, start)))
                   /\ pos = LineEndsUpTo(input, start)
              ELSE ~result.success

\* "\n\r\n" and the like: the whole input is line ends, a "\r\n" after
\* another line end among them, and many1 yields fewer values than units.
C20_Witness ==
    /\ Done
    /\ how.op = "new_line_many1"
    /\ start = 0
    /\ pos = Len(input)
    /\ result.success
    /\ Len(result.value.items) > 1
    /\ result.value.items[2] = Str("\r\n")
    /\ Len(result.value.items) < Len(input)

\* C22: the position is at every moment between 0 and the length of the
\* input, before and after every call of every parser of a run, the
\* positions put back by or, many, peek, not, optional and until
\* included; a read at the end of the input yields "" and leaves the
\* position, any other read yields the unit there and advances by one.
C22_PositionWithinInput ==
    /\ pos \in 0..Len(input)
    /\ start \in 0..Len(input)
    /\ \A i \in 1..Len(calls) :
          /\ calls[i].at \in 0..Len(input)
          /\ calls[i].to \in 0..Len(input)
    /\ \A p \in 0..Len(input) :
          LET nx == Source_next(input, p)
          IN  IF p = Len(input)
              THEN nx.ch = "" /\ nx.pos = p
              ELSE nx.ch = input[p + 1] /\ nx.pos = p + 1

\* A parser that reads is run at the end of a non-empty input: its read
\* fails there and the position stays at the end.
C22_Witness ==
    /\ Done
    /\ Len(input) > 0
    /\ start = Len(input)
    /\ parser.cls \in {"any", "char", "string"}
    /\ ~result.success
    /\ pos = Len(input)

\* C23: P.optional() never fails: it returns P's success, value and
\* position, when P succeeds; when P fails it succeeds with the undefined
\* value at the position where it was started, and the parser after it
\* in a sequence starts there.
C23_OptionalNeverFails ==
    Done =>
        /\ how.op = "optional" =>
              LET r == Alone(how.args[1], start)
              IN  IF r.res.success
                  THEN result = r.res /\ pos = r.pos
                  ELSE result = ParseResultOk(Undef) /\ pos = start
        /\ how.op = "optionalThen" =>
              LET r == Alone(how.args[1], start)
              IN  /\ Direct[1].ok
                  /\ Len(Direct) = 2
                  /\ Direct[1].to = IF r.res.success THEN r.pos ELSE start
                  /\ Direct[2].at = Direct[1].to
                  /\ result.success = Direct[2].ok

\* P fails after consuming, and the parser after P.optional() succeeds
\* from the position P was started at.
C23_Witness ==
    /\ Done
    /\ how.op = "optionalThen"
    /\ ~Alone(how.args[1], start).res.success
    /\ Alone(how.args[1], start).pos > start
    /\ Direct[2].at = start
    /\ result.success

\* Unit i of str is the unit of the input i - 1 units after position at.
UnitMatches(str, at, i) == at + i <= Len(input) /\ input[at + i] = str[i]

\* C25: string(s) succeeds with s exactly when the next length(s) units
\* are s, and then leaves the position length(s) further; when unit k of
\* s, counted from 0, is the first that does not match, it fails having
\* read that unit and nothing after it: the position is k + 1 further,
\* and k further when what it read there was the end of the input.
\* string("") succeeds and leaves the position.
C25_StringStopsAtFirstMismatch ==
    Done /\ how.op = "string" =>
        LET str == how.args[1]
            bad == {i \in 1..Len(str) : ~UnitMatches(str, start, i)}
        IN  IF bad = {}
            THEN /\ result = ParseResultOk(Str(StrOf(str)))
                 /\ pos = start + Len(str)
            ELSE LET k == (CHOOSE i \in bad : \A j \in bad : i <= j) - 1
                 IN  /\ ~result.success
                     /\ pos = IF start + k >= Len(input) THEN start + k
                                                         ELSE start + k + 1

\* The second of three units does not match: string stops behind it,
\* the third unit not read.
C25_Witness ==
    /\ Done
    /\ how.op = "string"
    /\ Len(how.args[1]) = 3
    /\ ~result.success
    /\ pos = start + 2
    /\ pos < Len(input)

\* string("") in the middle of an input.
C25_WitnessEmpty ==
    /\ Done
    /\ how.op = "string"
    /\ how.args[1] = <<>>
    /\ result = ParseResultOk(Str(""))
    /\ pos = start
    /\ pos < Len(input)

\* C27: no parser leaves the position before the one it was entered at:
\* for the parser under test and for every parser under it, on success
\* and on failure, the position at the return of parse is at or after the
\* position at the call.
C27_NeverBeforeEntry ==
    Done =>
        /\ pos >= start
        /\ \A i \in 1..Len(calls) : calls[i].to >= calls[i].at

\* P.or(Q) started inside the input: P fails after consuming, the
\* position is put back, and Q fails without consuming, leaving the
\* position where or was entered.
C27_Witness ==
    /\ Done
    /\ how.op = "or"
    /\ start > 0
    /\ Alone(how.args[1], start).pos > start
    /\ ~result.success
    /\ pos = start

\* The parser accepts unit u: any() every unit, char(c) the unit c,
\* oneOf(set) the units of set, eof() none.
Accepts(p, u) ==
    CASE p.cls = "any"   -> TRUE
      [] p.cls = "char"  -> u = p.chars[1]
      [] p.cls = "oneOf" -> \E i \in 1..Len(p.chars) : u = p.chars[i]
      [] p.cls = "eof"   -> FALSE

\* C28: any(), char(c), oneOf(set) and eof() read one unit.  Inside the
\* input, any, char and oneOf succeed on a unit they accept, one unit
\* further, and char, oneOf and eof fail on the unit they reject, leaving
\* the position one unit further too.  At the end of the input any, char
\* and oneOf fail and eof succeeds, the position unchanged;
\* eof().followedBy(eof()) succeeds exactly there.
C28_PrimitivesConsumeRejectedUnit ==
    Done =>
        /\ how.op \in {"operand", "oneOf"} /\ parser.cls \in {"any", "char", "oneOf", "eof"} =>
              IF start = Len(input)
              THEN /\ result.success = (parser.cls = "eof")
                   /\ pos = start
              ELSE /\ result.success = Accepts(parser, input[start + 1])
                   /\ result.success => result.value = Str(input[start + 1])
                   /\ pos = start + 1
        /\ how.op = "followedBy" /\ how.args = <<eof, eof>> =>
              /\ result.success = (start = Len(input))
              /\ result.success => pos = start /\ result.value = Undef

\* eof() fails inside the input and leaves the position behind the unit.
C28_Witness ==
    /\ Done
    /\ how.op = "operand"
    /\ parser.cls = "eof"
    /\ ~result.success
    /\ pos = start + 1

\* oneOf rejects a unit and consumes it; eof twice at the end.
C28_WitnessOneOf ==
    /\ Done
    /\ how.op = "oneOf"
    /\ ~result.success
    /\ pos = start + 1

C28_WitnessEofTwice ==
    /\ Done
    /\ how.op = "followedBy"
    /\ how.args = <<eof, eof>>
    /\ result.success
    /\ pos = start

\* Separator S matches at position at and P matches right behind it.
SeparatorThenElement(P, S, at) ==
    /\ Alone(S, at).res.success
    /\ Alone(P, Alone(S, at).pos).res.success

\* Separator S matches at position at and P does not match behind it.
DanglingSeparator(P, S, at) ==
    /\ Alone(S, at).res.success
    /\ ~Alone(P, Alone(S, at).pos).res.success

RECURSIVE LastElementEnd(_, _, _)

\* The position behind the last element of the elements that follow, each
\* behind a separator, the element that ends at position at.
LastElementEnd(P, S, at) ==
    IF SeparatorThenElement(P, S, at)
    THEN LastElementEnd(P, S, Alone(P, Alone(S, at).pos).pos)
    ELSE at

RECURSIVE ElementCount(_, _, _)

\* The number of elements, the one that ends at position at included.
ElementCount(P, S, at) ==
    IF SeparatorThenElement(P, S, at)
    THEN 1 + ElementCount(P, S, Alone(P, Alone(S, at).pos).pos)
    ELSE 1

\* C29: when P.sepBy1(S) or P.sepBy(S) has matched k >= 1 elements and
\* the separator matches once more with no P behind it, the parser
\* succeeds with the k elements and leaves the position before that
\* separator: the separator and what the failed P read are put back.
C29_DanglingSeparatorNotConsumed ==
    Done /\ how.op \in {"sepBy", "sepBy1"} /\ Alone(how.args[1], start).res.success =>
        LET P == how.args[1]
            S == how.args[2]
            e == LastElementEnd(P, S, Alone(P, start).pos)
        IN  DanglingSeparator(P, S, e) =>
                /\ result.success
                /\ pos = e
                /\ ~is_skip(P) =>
                      Len(result.value.items) = ElementCount(P, S, Alone(P, start).pos)

\* Two elements, then a separator and a P that fails after reading.
C29_Witness ==
    /\ Done
    /\ how.op = "sepBy1"
    /\ result.success
    /\ Len(result.value.items) = 2
    /\ DanglingSeparator(how.args[1], how.args[2], pos)
    /\ pos < Len(input)

\* Call j was made, directly or not, by call i.
IsUnder(j, i) ==
    /\ j > i
    /\ Len(calls[j].path) > Len(calls[i].path)
    /\ SubSeq(calls[j].path, 1, Len(calls[i].path)) = calls[i].path
    /\ \A k \in (i + 1)..j : Len(calls[k].path) > Len(calls[i].path)

\* The last call that call i made itself.
LastChild(i) ==
    CHOOSE j \in 1..Len(calls) :
        /\ IsUnder(j, i)
        /\ Len(calls[j].path) = Len(calls[i].path) + 1
        /\ \A k \in (j + 1)..Len(calls) :
              IsUnder(k, i) => Len(calls[k].path) > Len(calls[i].path) + 1

\* Failed call i made the failure it returned with "new ParseResultFail":
\* the primitives, Not.parse, parse_expect, and Seq.parse and
\* SkipSeq.parse when their first parser failed.  Every other failed call
\* returned the failure of the last call it made.
Creates(i) ==
    LET cls == NodeAt(parser, calls[i].path).cls
    IN  \/ cls \in {"any", "char", "oneOf", "eof", "string", "Not", "parse_expect"}
        \/ cls \in {"Seq", "SkipSeq"} /\ ~calls[i + 1].ok

RECURSIVE BornAt(_)

\* The position of the Source when the failure that failed call i
\* returned was made.
BornAt(i) == IF Creates(i) THEN calls[i].to ELSE BornAt(LastChild(i))

\* The position read from the failure the parser under test returned,
\* after it returned: result.source is the Source, and this is its pos.
FailurePosition == pos

\* C24: the position of a failure is the position at which it was made,
\* and it still is once the whole parse has returned, whatever position
\* peek, or, many, optional or not have put back since.
C24_FailurePositionIsSnapshot ==
    Done /\ ~result.success => FailurePosition = BornAt(1)

\* What the code does of C24: the failure holds the Source, and its
\* position is the one the Source has when it is read; it is the position
\* the failure was made at unless a peek on the way up put an earlier
\* position back.
C24_FailurePositionIsTheSourcesPosition ==
    Done /\ ~result.success =>
        /\ result.source = "source"
        /\ FailurePosition # BornAt(1) =>
              \E i \in 1..Len(calls) :
                  /\ NodeAt(parser, calls[i].path).cls \in {"Peek", "PeekSkip"}
                  /\ ~calls[i].ok
                  /\ ~Creates(i)
                  /\ calls[i].to < BornAt(i)

\* Every success of P on this input consumes a unit at least.
Consuming(P) ==
    \A at \in 0..Len(input) :
        LET r == Alone(P, at) IN r.res.success => r.pos > at

\* P succeeds at position at without consuming.
ZeroWidthAt(P, at) == LET r == Alone(P, at) IN r.res.success /\ r.pos = at

InLoop == pc = "loop"

\* C26: a call of P.many(), Many or SkipMany, returns when every success
\* of P consumes a unit at least; nothing in the loop guards against a
\* success that consumes nothing, and a call whose P succeeds without
\* consuming at the position it has come to, as always(v) does
\* everywhere, never returns.
C26_ManyReturnsIffRunsConsume ==
    /\ [](InLoop /\ Consuming(parser.kids[1]) => <>Done)
    /\ [](InLoop /\ ZeroWidthAt(parser.kids[1], pos) => []InLoop)

\* A call of many() that returned after three runs of P.
C26_Witness ==
    /\ Done
    /\ how.op = "manyLoop"
    /\ Consuming(how.args[1])
    /\ Len(calls) = 3
    /\ result.success

\* many() around always(v), after more runs than the input has units.
C26_WitnessRunsOn ==
    /\ InLoop
    /\ how.args[1].cls = "always"
    /\ Len(calls) > Len(input)

\* A call that returned did what Many.parse and SkipMany.parse do when
\* run as one step.
ManyLoopAgrees ==
    Done /\ how.op = "manyLoop" =>
        /\ result = Alone(parser, start).res
        /\ pos = Alone(parser, start).pos

\* ---------------------------------------------------------------- C21, C30
\* The index of the first quote at or after index i that no backslash
\* escapes, 0 when there is none: a backslash takes the unit after it,
\* a backslash that ends the input takes nothing.
RECURSIVE ClosingQuote(_, _)
ClosingQuote(in, i) ==
    IF i > Len(in) THEN 0
    ELSE IF in[i] = Quote THEN i
    ELSE IF in[i] = Backslash /\ i < Len(in) THEN ClosingQuote(in, i + 2)
    ELSE ClosingQuote(in, i + 1)

\* The units i..j-1 of the input with every backslash and the unit after
\* it replaced by that unit.
RECURSIVE Unescaped(_, _, _)
Unescaped(in, i, j) ==
    IF i >= j THEN <<>>
    ELSE IF in[i] = Backslash /\ i + 1 < j
         THEN <<in[i + 1]>> \o Unescaped(in, i + 2, j)
         ELSE <<in[i]>> \o Unescaped(in, i + 1, j)

LiteralDone == Done /\ how.op = "string_literal"

Opens == start < Len(input) /\ input[start + 1] = Quote

Closes == Opens /\ ClosingQuote(input, start + 2) # 0

\* C21: when the input at the cursor is an opening quote, a body and a
\* closing quote, string_literal() succeeds with the body in which every
\* backslash together with the unit after it is replaced by that unit,
\* whatever the unit is, and the cursor is just past the first quote
\* that no backslash escapes.
C21_LiteralUnescapesBody ==
    LiteralDone /\ Closes =>
        LET c == ClosingQuote(input, start + 2)
        IN  /\ result.success
            /\ result.value = Str(StrOf(Unescaped(input, start + 2, c)))
            /\ pos = c

\* A literal returned with an escaped quote in its body.
C21_Witness ==
    /\ LiteralDone
    /\ Closes
    /\ start = 0
    /\ input = <<Quote, Backslash, Quote, Quote>>
    /\ result = ParseResultOk(Str(Quote))
    /\ pos = 4

\* A literal returned with an escaped unit that needs no escaping.
C21_WitnessOrdinaryUnit ==
    /\ LiteralDone
    /\ input = <<Quote, Backslash, "a", Quote>>
    /\ start = 0
    /\ result = ParseResultOk(Str("a"))
    /\ pos = 4

\* C30: every call of string_literal() returns, and it returns a failure
\* when the input at the cursor does not start with a quote, and a
\* failure at the end of the input when no unescaped quote follows the
\* opening one.
C30_LiteralReturnsAndFailsUnclosed ==
    /\ [](InLoop => <>Done)
    /\ [](LiteralDone /\ ~Opens => ~result.success)
    /\ [](LiteralDone /\ Opens /\ ~Closes =>
             ~result.success /\ pos = Len(input))

\* The literal whose only remaining quote is escaped has failed at the end
\* of the input.
C30_Witness ==
    /\ LiteralDone
    /\ input = <<Quote, "a", Backslash, Quote>>
    /\ start = 0
    /\ ~result.success
    /\ pos = 4

\* No opening quote.
C30_WitnessNoOpening ==
    /\ LiteralDone
    /\ input = <<"a", Quote>>
    /\ start = 0
    /\ ~result.success

\* A call that returns gives what the one-step parse of string_literal()
\* gives.
LiteralAgrees ==
    LiteralDone =>
        /\ result = Alone(parser, start).res
        /\ pos = Alone(parser, start).pos

====
